---------------------------- MODULE Spec2Model ----------------------------
(***************************************************************************)
(* The two mini-games of the portfolio terminal:                           *)
(*   - the space shooter kept in Terminal.tsx (updateSpaceShooter, the     *)
(*     200 ms interval and the terminal's key handler);                    *)
(*   - the runner of RunnerGame.tsx (gameLoop, its key handlers, the       *)
(*     effect that owns the player and resetGame), mounted by App.tsx;     *)
(* with the command line around them (the history, the guesser and the     *)
(* adventure of Terminal.tsx) and the App's view mode, Escape key,         *)
(* renders and change of layout.                                           *)
(*                                                                         *)
(* Math.random() is a nondeterministic input of the actions.  Lengths of   *)
(* the runner are fixed-point numbers with Scale units per pixel, so that  *)
(* 0.5 px/frame and 0.8 px/frame^2 are integers.                           *)
(***************************************************************************)
EXTENDS Integers, Sequences, FiniteSets, TLC

VARIABLES
    \* ---- Terminal.tsx
    gameActive,       \* useState(false)
    currentGame,      \* useState('')
    gameState,        \* useState<SpaceShooterState | null>: << >> is null, <<s>> is s
    gameLoopRef,      \* useRef<number | null>: "null" or "armed"
    commandHistory,   \* useState<string[]>([])
    historyIndex,     \* useState<number | null>(null): -1 is null
    targetNumber,     \* useState(0)
    attempts,         \* useState(0)
    \* ---- App.tsx
    isGameActive,     \* useState(false): the RunnerGame overlay is mounted
    viewMode,         \* useState<ViewMode>('terminal')
    \* ---- RunnerGame.tsx, React state and refs
    gameOver,         \* useState(false)
    score,            \* useState(0)
    scoreRef,         \* useRef(0)
    highScore,        \* useState(() => localStorage 'runnerHighScore')
    runnerHighScore,  \* localStorage item 'runnerHighScore'
    gameStateRef,     \* useRef({isRunning, obstacles, frameCount, gameSpeed})
    \* ---- RunnerGame.tsx, locals of the game effect (one closure per effect run)
    effectGameOver,   \* the value of gameOver the running effect closed over
    player,           \* const player: GameObject
    isJumping,
    isDucking,
    jumpVelocity

shellVars  == <<commandHistory, historyIndex, targetNumber, attempts>>
termVars   == <<gameActive, currentGame, gameState, gameLoopRef,
                commandHistory, historyIndex, targetNumber, attempts>>
runnerVars == <<gameOver, score, scoreRef, highScore, runnerHighScore, gameStateRef,
                effectGameOver, player, isJumping, isDucking, jumpVelocity>>
vars       == <<gameActive, currentGame, gameState, gameLoopRef,
                commandHistory, historyIndex, targetNumber, attempts, isGameActive, viewMode,
                gameOver, score, scoreRef, highScore, runnerHighScore, gameStateRef,
                effectGameOver, player, isJumping, isDucking, jumpVelocity>>

(***************************************************************************)
(* Bounds of the model.  The grid and the runner's track are smaller than  *)
(* the program's (20 x 15 cells, 800 px, a spawn every 100 frames, a speed *)
(* step every 300 frames, gravity 0.8) so that every case is reached in a  *)
(* few steps; the code is otherwise unchanged.                             *)
(***************************************************************************)
GAME_WIDTH == 2
GAME_HEIGHT == 4
MaxBullets == 2
MaxMeteorites == 1
MaxLoot == 1
MaxShooterScore == 11

canvasWidth == 80
spawnEvery == 10
speedEvery == 15
gravity == 40
MaxFrames == 112
MaxBest == 2
MaxHistory == 2
MaxAttempts == 2
GuessRange == 3

(***************************************************************************)
(* Program constants.                                                      *)
(***************************************************************************)
KILL_POINTS == 10
LOOT_POINTS == 50
Scale == 10
canvasHeight == 200
playerX == 50
playerWidth == 20
standHeight == 40
duckHeight == 20
obstacleWidth == 20
highTop == 60
highHeight == 30
lowTop == 20
lowHeight == 20
jumpStrength == -150
initialSpeed == 50
speedStep == 5

\* ------------------------------------------------------------------ helpers
Max(S) == CHOOSE m \in S : \A n \in S : n <= m

\* entities.map(e => ({ ...e, y: e.y + dy }))
RECURSIVE moveAll(_, _)
moveAll(s, dy) ==
    IF s = << >> THEN << >>
    ELSE <<[Head(s) EXCEPT !.y = Head(s).y + dy]>> \o moveAll(Tail(s), dy)

RemoveAt(s, i) == SubSeq(s, 1, i - 1) \o SubSeq(s, i + 1, Len(s))

\* ------------------------------------------------- space shooter (pure part)
initializeSpaceShooter ==
    [playerPos  |-> GAME_WIDTH \div 2,
     meteorites |-> << >>,
     bullets    |-> << >>,
     loot       |-> << >>,
     score      |-> 0,
     gameOver   |-> FALSE]

\* "a" / "d" move the player and return at once, but only when the move is possible
isMove(state, action) ==
    \/ action = "a" /\ state.playerPos > 0
    \/ action = "d" /\ state.playerPos < GAME_WIDTH - 1

movePlayer(state, action) ==
    IF action = "a" THEN [state EXCEPT !.playerPos = state.playerPos - 1]
                    ELSE [state EXCEPT !.playerPos = state.playerPos + 1]

\* " " pushes a bullet one row above the player before the bullets move
fire(state, action) ==
    IF action = " "
    THEN [state EXCEPT !.bullets = Append(state.bullets,
                                          [x |-> state.playerPos, y |-> GAME_HEIGHT - 2])]
    ELSE state

moveBullets(state) ==
    [state EXCEPT !.bullets = SelectSeq(moveAll(state.bullets, -1), LAMBDA b : b.y >= 0)]

\* spawnX = -1: Math.random() >= 0.05, no meteorite this tick
moveMeteorites(state, spawnX) ==
    LET moved == moveAll(state.meteorites, 1)
    IN  [state EXCEPT !.meteorites =
            IF spawnX >= 0 THEN Append(moved, [x |-> spawnX, y |-> 0]) ELSE moved]

\* (variant: the inner loop compares the columns only)
hitIndex_xOnly(bullet, meteorites) ==
    LET S == {j \in 1..Len(meteorites) : bullet.x = meteorites[j].x}
    IN  IF S = {} THEN 0 ELSE Max(S)

\* the inner loop: the last meteorite (highest index) in the bullet's cell, 0 if none
hitIndex(bullet, meteorites) ==
    LET S == {j \in 1..Len(meteorites) :
                 bullet.x = meteorites[j].x /\ bullet.y = meteorites[j].y}
    IN  IF S = {} THEN 0 ELSE Max(S)

\* the outer loop, from the last bullet down to the first; i \in drops is the
\* outcome of Math.random() < 0.3 for the collision of bullet i
RECURSIVE collide(_, _, _)
collide(i, state, drops) ==
    IF i = 0 THEN state
    ELSE LET bullet == state.bullets[i]
             j      == hitIndex(bullet, state.meteorites)
         IN  IF j = 0 THEN collide(i - 1, state, drops)
             ELSE LET meteor == state.meteorites[j]
                  IN  collide(i - 1,
                              [state EXCEPT
                                 !.bullets    = RemoveAt(state.bullets, i),
                                 !.meteorites = RemoveAt(state.meteorites, j),
                                 !.score      = state.score + KILL_POINTS,
                                 !.loot       = IF i \in drops
                                                THEN Append(state.loot,
                                                            [x |-> meteor.x, y |-> meteor.y])
                                                ELSE state.loot],
                              drops)

moveLoot(state) == [state EXCEPT !.loot = moveAll(state.loot, 1)]

\* (variant: a pickup is charged instead of credited)
collectLoot_deduct(state) ==
    LET taken(item) == item.y = GAME_HEIGHT - 1 /\ item.x = state.playerPos
        n == Cardinality({i \in 1..Len(state.loot) : taken(state.loot[i])})
    IN  [state EXCEPT !.loot  = SelectSeq(state.loot, LAMBDA item : ~taken(item)),
                      !.score = state.score - LOOT_POINTS * n]

\* (variant: a pickup looks at the column only)
collectLoot_anyRow(state) ==
    LET taken(item) == item.x = state.playerPos
        n == Cardinality({i \in 1..Len(state.loot) : taken(state.loot[i])})
    IN  [state EXCEPT !.loot  = SelectSeq(state.loot, LAMBDA item : ~taken(item)),
                      !.score = state.score + LOOT_POINTS * n]

collectLoot(state) ==
    LET taken(item) == item.y = GAME_HEIGHT - 1 /\ item.x = state.playerPos
        n == Cardinality({i \in 1..Len(state.loot) : taken(state.loot[i])})
    IN  [state EXCEPT !.loot  = SelectSeq(state.loot, LAMBDA item : ~taken(item)),
                      !.score = state.score + LOOT_POINTS * n]

checkGameOver(state) ==
    IF \E i \in 1..Len(state.meteorites) :
          state.meteorites[i].y >= GAME_HEIGHT - 1 /\ state.meteorites[i].x = state.playerPos
    THEN [state EXCEPT !.gameOver = TRUE]
    ELSE state

\* (variant: the clean-up keeps the row below the grid)
cleanUp_late(state) ==
    [state EXCEPT !.meteorites = SelectSeq(state.meteorites, LAMBDA m : m.y <= GAME_HEIGHT),
                  !.loot       = SelectSeq(state.loot, LAMBDA item : item.y <= GAME_HEIGHT)]

cleanUp(state) ==
    [state EXCEPT !.meteorites = SelectSeq(state.meteorites, LAMBDA m : m.y < GAME_HEIGHT),
                  !.loot       = SelectSeq(state.loot, LAMBDA item : item.y < GAME_HEIGHT)]

\* the state after the bullets and the meteorites have moved, before the collisions
afterMoves(state, action, spawnX) ==
    moveMeteorites(moveBullets(fire(state, action)), spawnX)

afterCollisions(state, action, spawnX, drops) ==
    LET m == afterMoves(state, action, spawnX)
    IN  collide(Len(m.bullets), m, drops)

\* everything updateSpaceShooter does to a live game
advance(state, action, spawnX, drops) ==
    IF isMove(state, action)
    THEN movePlayer(state, action)
    ELSE cleanUp(checkGameOver(collectLoot(moveLoot(
             afterCollisions(state, action, spawnX, drops)))))

\* (variant: the game-over guard is missing)
updateSpaceShooter_noGuard(state, action, spawnX, drops) ==
    advance(state, action, spawnX, drops)

updateSpaceShooter(state, action, spawnX, drops) ==
    IF state.gameOver THEN state ELSE advance(state, action, spawnX, drops)

\* The object passed in, as the call leaves it.  newState = {...state} copies
\* the fields, so newState.bullets and newState.loot are the arrays of the
\* input until they are assigned anew: the push of the fired bullet and the
\* push of a dropped loot item write to the input's arrays.  The meteorites
\* are mapped to a new array before anything is pushed; playerPos, score and
\* gameOver are written on the copy.
inputAfter(state, action, spawnX, drops) ==
    IF state.gameOver \/ isMove(state, action) THEN state
    ELSE [state EXCEPT
            !.bullets = fire(state, action).bullets,
            !.loot    = afterCollisions(state, action, spawnX, drops).loot]

\* ------------------------------------------------------ terminal, the shooter
\* the outcomes of Math.random(): the column of the new meteorite (-1: none), and
\* the bullets whose collision drops loot (drawn only for a bullet that collides)
Spawns == -1 .. (GAME_WIDTH - 1)

Drops(state, action, spawnX) ==
    LET m == afterMoves(state, action, spawnX)
    IN  SUBSET {i \in 1..Len(m.bullets) : hitIndex(m.bullets[i], m.meteorites) # 0}

\* the random outcomes and inputs the bounds admit
Within(state, new) ==
    /\ Len(new.bullets)    <= MaxBullets
    /\ Len(new.meteorites) <= MaxMeteorites
    /\ Len(new.loot)       <= MaxLoot
    /\ state.score < MaxShooterScore

\* setGameState(prev => updateSpaceShooter(prev, action))
applyUpdate(action) ==
    /\ gameState # << >>
    /\ \E spawnX \in Spawns :
          \E drops \in Drops(gameState[1], action, spawnX) :
             LET new == updateSpaceShooter(gameState[1], action, spawnX, drops)
             IN  /\ Within(gameState[1], new)
                 /\ gameState' = <<new>>

inShooter == gameActive /\ currentGame = "spaceshooter" /\ gameState # << >>

\* handleKeyDown, Enter while no game is active: a non-empty line joins the
\* command history, the history cursor is dropped, and executeCommand gets the line
dispatch(cmd) ==
    /\ ~gameActive
    /\ Len(commandHistory) < MaxHistory
    /\ commandHistory' = Append(commandHistory, cmd)
    /\ historyIndex' = -1

\* executeCommand('game spaceshooter'); Enter runs a command only when no game is active
StartShooter ==
    /\ dispatch("spaceshooter")
    /\ gameActive' = TRUE
    /\ currentGame' = "spaceshooter"
    /\ gameState' = <<initializeSpaceShooter>>
    /\ gameLoopRef' = "armed"
    /\ UNCHANGED <<targetNumber, attempts, isGameActive, viewMode, runnerVars>>

\* the setInterval callback
Tick ==
    /\ gameLoopRef = "armed"
    /\ applyUpdate("")
    /\ UNCHANGED <<gameActive, currentGame, gameLoopRef, isGameActive, viewMode, shellVars, runnerVars>>

\* handleKeyDown: a / A / ArrowLeft, d / D / ArrowRight, space / ArrowUp
KeyAction(action) ==
    /\ inShooter
    /\ applyUpdate(action)
    /\ UNCHANGED <<gameActive, currentGame, gameLoopRef, isGameActive, viewMode, shellVars, runnerVars>>

KeyLeft  == KeyAction("a")
KeyRight == KeyAction("d")
KeyFire  == KeyAction(" ")

\* (variant: quitting leaves the interval running)
endGame_keepTimer ==
    /\ gameActive' = FALSE
    /\ currentGame' = ""
    /\ UNCHANGED <<gameLoopRef, gameState, isGameActive, viewMode, shellVars, runnerVars>>

\* handleKeyDown: q / Q / Escape, and Enter on a typed "quit" or "q"
endGame ==
    /\ gameActive' = FALSE
    /\ currentGame' = ""
    /\ gameLoopRef' = "null"
    /\ UNCHANGED <<gameState, isGameActive, viewMode, shellVars, runnerVars>>

KeyQuit == inShooter /\ endGame

EnterQuit == gameActive /\ endGame

\* (variant: the restart key does not look at gameOver)
KeyRestart_always ==
    /\ inShooter
    /\ gameState' = <<initializeSpaceShooter>>
    /\ UNCHANGED <<gameActive, currentGame, gameLoopRef, isGameActive, viewMode, shellVars, runnerVars>>

\* handleKeyDown: r / R restarts a dead game; on a live one the key falls through
KeyRestart ==
    /\ inShooter
    /\ gameState' = IF gameState[1].gameOver THEN <<initializeSpaceShooter>> ELSE gameState
    /\ UNCHANGED <<gameActive, currentGame, gameLoopRef, isGameActive, viewMode, shellVars, runnerVars>>

\* ------------------------------------------------------------- runner (pure part)
ground(height) == canvasHeight * Scale - height

standingPlayer ==
    [x |-> playerX * Scale, y |-> ground(standHeight * Scale),
     width |-> playerWidth * Scale, height |-> standHeight * Scale]

initialGameState ==
    [isRunning |-> TRUE, obstacles |-> << >>, frameCount |-> 0, gameSpeed |-> initialSpeed]

\* spawnObstacle: the obstacle keeps the scroll speed of the frame that spawned it
newObstacle(type, speed) ==
    [x      |-> canvasWidth * Scale,
     y      |-> IF type = "high" THEN ground(highTop * Scale) ELSE ground(lowTop * Scale),
     width  |-> obstacleWidth * Scale,
     height |-> IF type = "high" THEN highHeight * Scale ELSE lowHeight * Scale,
     speed  |-> speed,
     type   |-> type,
     passed |-> FALSE]

checkCollision(rect1, rect2) ==
    /\ rect1.x < rect2.x + rect2.width
    /\ rect1.x + rect1.width > rect2.x
    /\ rect1.y < rect2.y + rect2.height
    /\ rect1.y + rect1.height > rect2.y

\* (variant: the two obstacle kinds are swapped)
avoids_swapped(type, jumping, ducking) ==
    IF type = "low" THEN ducking ELSE jumping

\* the state in which an obstacle of this type does not end the run
avoids(type, jumping, ducking) ==
    IF type = "low" THEN jumping ELSE ducking

\* (variant: the landing puts the player on the ground and leaves the flag set)
jumpStep_flagKept(p, jumping, velocity) ==
    IF ~jumping THEN [player |-> p, isJumping |-> FALSE, jumpVelocity |-> velocity]
    ELSE LET y == p.y + velocity
         IN  IF y >= canvasHeight * Scale - p.height
             THEN [player |-> [p EXCEPT !.y = canvasHeight * Scale - p.height],
                   isJumping |-> TRUE, jumpVelocity |-> 0]
             ELSE [player |-> [p EXCEPT !.y = y],
                   isJumping |-> TRUE, jumpVelocity |-> velocity + gravity]

\* gameLoop, "Update player": one step of the jump
jumpStep(p, jumping, velocity) ==
    IF ~jumping THEN [player |-> p, isJumping |-> FALSE, jumpVelocity |-> velocity]
    ELSE LET y == p.y + velocity
         IN  IF y >= canvasHeight * Scale - p.height
             THEN [player |-> [p EXCEPT !.y = canvasHeight * Scale - p.height],
                   isJumping |-> FALSE, jumpVelocity |-> 0]
             ELSE [player |-> [p EXCEPT !.y = y],
                   isJumping |-> TRUE, jumpVelocity |-> velocity + gravity]

\* (variant: the passed flag is not consulted)
scores_everyFrame(o, p) == o.x + o.width < p.x

\* gameLoop, the filter callback on one obstacle: move it, score it and mark it
\* passed when its right edge is left of the player
scores(o, p) == o.x + o.width < p.x /\ ~o.passed

\* (variant: the obstacles scroll to the right)
shift_right(o) == [o EXCEPT !.x = o.x + o.speed]

shift(o) == [o EXCEPT !.x = o.x - o.speed]

moveObstacle(o, p) ==
    IF scores(shift(o), p) THEN [shift(o) EXCEPT !.passed = TRUE] ELSE shift(o)

hits(o, p, jumping, ducking) ==
    checkCollision(p, o) /\ ~avoids(o.type, jumping, ducking)

\* the callback's return value: false on a collision, else "still on screen"
keeps(o, p, jumping, ducking) ==
    ~hits(o, p, jumping, ducking) /\ o.x > -o.width

\* gameLoop on a live game.  The callback reads gameOver from the closure, so a
\* collision does not stop the rest of the frame.
liveFrame(ref, p, jumping, ducking, type) ==
    LET moved   == [i \in 1..Len(ref.obstacles) |-> moveObstacle(ref.obstacles[i], p)]
        gained  == Cardinality({i \in 1..Len(moved) : scores(shift(ref.obstacles[i]), p)})
        hit     == \E i \in 1..Len(moved) : hits(moved[i], p, jumping, ducking)
        kept    == SelectSeq(moved, LAMBDA o : keeps(o, p, jumping, ducking))
        count   == ref.frameCount + 1
        spawned == IF count % spawnEvery = 0
                   THEN Append(kept, newObstacle(type, ref.gameSpeed)) ELSE kept
        speed   == IF count % speedEvery = 0 /\ count > 0
                   THEN ref.gameSpeed + speedStep ELSE ref.gameSpeed
    IN  [ref    |-> [isRunning |-> ref.isRunning /\ ~hit, obstacles |-> spawned,
                     frameCount |-> count, gameSpeed |-> speed],
         gained |-> gained,
         hit    |-> hit]

\* --------------------------------------------------------------- runner, actions
mounted == isGameActive

\* the effect body up to the listeners: a fresh player for every run of the effect
runEffect ==
    /\ player' = standingPlayer
    /\ isJumping' = FALSE
    /\ isDucking' = FALSE
    /\ jumpVelocity' = 0
    /\ effectGameOver' = gameOver'

\* executeCommand('game runner') -> onStartGame() -> <RunnerGame/> mounts
StartRunner ==
    /\ dispatch("runner")
    /\ isGameActive' = TRUE
    /\ IF isGameActive
       THEN UNCHANGED runnerVars
       ELSE /\ gameOver' = FALSE
            /\ score' = 0
            /\ scoreRef' = 0
            /\ highScore' = runnerHighScore
            /\ gameStateRef' = initialGameState
            /\ runEffect
            /\ UNCHANGED runnerHighScore
    /\ UNCHANGED <<gameActive, currentGame, gameState, gameLoopRef, targetNumber, attempts,
                   viewMode>>

\* requestAnimationFrame(gameLoop); React commits a pending state change first
Frame ==
    /\ mounted
    /\ effectGameOver = gameOver
    /\ gameStateRef.frameCount < MaxFrames
    /\ IF effectGameOver
       THEN UNCHANGED runnerVars
       ELSE \E type \in {"high", "low"} :
              LET j == jumpStep(player, isJumping, jumpVelocity)
                  f == liveFrame(gameStateRef, j.player, j.isJumping, isDucking, type)
              IN  /\ player' = j.player
                  /\ isJumping' = j.isJumping
                  /\ jumpVelocity' = j.jumpVelocity
                  /\ gameStateRef' = f.ref
                  /\ scoreRef' = scoreRef + f.gained
                  /\ score' = scoreRef + f.gained
                  /\ gameOver' = f.hit
                  /\ UNCHANGED <<isDucking, effectGameOver, highScore, runnerHighScore>>
    /\ UNCHANGED <<termVars, viewMode, isGameActive>>

\* handleKeyDown: ArrowUp / w
KeyJump ==
    /\ mounted
    /\ IF ~effectGameOver /\ ~isJumping
       THEN /\ isJumping' = TRUE
            /\ jumpVelocity' = jumpStrength
       ELSE UNCHANGED <<isJumping, jumpVelocity>>
    /\ UNCHANGED <<termVars, viewMode, isGameActive, gameOver, score, scoreRef, highScore,
                   runnerHighScore, gameStateRef, effectGameOver, player, isDucking>>

\* handleKeyDown: ArrowDown / s
KeyDuck ==
    /\ mounted
    /\ IF ~effectGameOver /\ ~isDucking
       THEN /\ isDucking' = TRUE
            /\ player' = [player EXCEPT !.height = duckHeight * Scale,
                                       !.y = ground(duckHeight * Scale)]
       ELSE UNCHANGED <<isDucking, player>>
    /\ UNCHANGED <<termVars, viewMode, isGameActive, gameOver, score, scoreRef, highScore,
                   runnerHighScore, gameStateRef, effectGameOver, isJumping, jumpVelocity>>

\* handleKeyUp: ArrowDown / s
KeyDuckUp ==
    /\ mounted
    /\ IF ~effectGameOver
       THEN /\ isDucking' = FALSE
            /\ player' = [player EXCEPT !.height = standHeight * Scale,
                                       !.y = ground(standHeight * Scale)]
       ELSE UNCHANGED <<isDucking, player>>
    /\ UNCHANGED <<termVars, viewMode, isGameActive, gameOver, score, scoreRef, highScore,
                   runnerHighScore, gameStateRef, effectGameOver, isJumping, jumpVelocity>>

\* React renders the RunnerGame after a state change and runs its effects
Render ==
    /\ mounted
    /\ effectGameOver # gameOver \/ (gameOver /\ score > highScore)
    /\ UNCHANGED <<termVars, viewMode, isGameActive, gameOver, score, scoreRef, gameStateRef>>
    /\ IF gameOver /\ score > highScore
       THEN highScore' = score /\ runnerHighScore' = score
       ELSE UNCHANGED <<highScore, runnerHighScore>>
    /\ IF effectGameOver # gameOver
       THEN runEffect
       ELSE UNCHANGED <<player, isJumping, isDucking, jumpVelocity, effectGameOver>>

\* (variant: the restart keeps the scroll speed of the run that ended)
resetGame_keepSpeed ==
    /\ mounted
    /\ gameOver /\ effectGameOver
    /\ gameOver' = FALSE
    /\ score' = 0
    /\ scoreRef' = 0
    /\ gameStateRef' = [initialGameState EXCEPT !.gameSpeed = gameStateRef.gameSpeed]
    /\ UNCHANGED <<termVars, viewMode, isGameActive, highScore, runnerHighScore,
                   effectGameOver, player, isJumping, isDucking, jumpVelocity>>

\* the Restart button of the game-over overlay
resetGame ==
    /\ mounted
    /\ gameOver /\ effectGameOver
    /\ gameOver' = FALSE
    /\ score' = 0
    /\ scoreRef' = 0
    /\ gameStateRef' = initialGameState
    /\ UNCHANGED <<termVars, viewMode, isGameActive, highScore, runnerHighScore,
                   effectGameOver, player, isJumping, isDucking, jumpVelocity>>

\* Escape, or the Quit button: onQuit() unmounts the component
RunnerQuit ==
    /\ mounted
    /\ isGameActive' = FALSE
    /\ gameOver' = FALSE
    /\ score' = 0
    /\ scoreRef' = 0
    /\ highScore' = 0
    /\ gameStateRef' = [isRunning |-> TRUE, obstacles |-> << >>, frameCount |-> 0, gameSpeed |-> 0]
    /\ effectGameOver' = FALSE
    /\ player' = [x |-> 0, y |-> 0, width |-> 0, height |-> 0]
    /\ isJumping' = FALSE
    /\ isDucking' = FALSE
    /\ jumpVelocity' = 0
    /\ UNCHANGED <<termVars, viewMode, runnerHighScore>>

\* ---------------------------------------------------------------------------
\* Terminal: the other commands, the line-based games and the command history
\* ---------------------------------------------------------------------------

\* executeCommand for a command that starts nothing ('help', 'ls', 'cat', ...)
OtherCommand ==
    /\ dispatch("help")
    /\ UNCHANGED <<gameActive, currentGame, gameState, gameLoopRef, targetNumber, attempts,
                   isGameActive, viewMode, runnerVars>>

\* executeCommand('game guesser'): Math.floor(Math.random() * 10) + 1
StartGuesser ==
    /\ dispatch("guesser")
    /\ gameActive' = TRUE
    /\ currentGame' = "guesser"
    /\ \E n \in 1..GuessRange : targetNumber' = n
    /\ attempts' = 0
    /\ UNCHANGED <<gameState, gameLoopRef, isGameActive, viewMode, runnerVars>>

\* handleKeyDown, Enter in the guesser.  guess = parseInt(cmd), -1 standing
\* for NaN: a number counts as an attempt, and the target ends the game
EnterGuess ==
    /\ gameActive
    /\ currentGame = "guesser"
    /\ attempts < MaxAttempts
    /\ \E guess \in -1..GuessRange :
         /\ attempts' = IF guess = -1 THEN attempts ELSE attempts + 1
         /\ IF guess = targetNumber
            THEN gameActive' = FALSE /\ currentGame' = ""
            ELSE UNCHANGED <<gameActive, currentGame>>
    /\ UNCHANGED <<gameState, gameLoopRef, commandHistory, historyIndex, targetNumber,
                   isGameActive, viewMode, runnerVars>>

\* executeCommand('adventure') -> startTextAdventure
StartAdventure ==
    /\ dispatch("adventure")
    /\ gameActive' = TRUE
    /\ currentGame' = "adventure"
    /\ UNCHANGED <<gameState, gameLoopRef, targetNumber, attempts, isGameActive, viewMode,
                   runnerVars>>

\* handleKeyDown, Enter in the adventure -> executeAdventureCommand: the map and
\* the inventory are left out, a line either ends the adventure ('exit', or the
\* move that reaches the vault with both items) or leaves it running
EnterAdventure ==
    /\ gameActive
    /\ currentGame = "adventure"
    /\ \E ends \in BOOLEAN :
         IF ends
         THEN gameActive' = FALSE /\ currentGame' = ""
         ELSE UNCHANGED <<gameActive, currentGame>>
    /\ UNCHANGED <<gameState, gameLoopRef, shellVars, isGameActive, viewMode, runnerVars>>

\* (variant: the history is browsed whether or not a game is active)
KeyArrowUp_inGame ==
    /\ ~inShooter
    /\ Len(commandHistory) > 0
    /\ historyIndex' = IF historyIndex = -1
                       THEN Len(commandHistory) - 1
                       ELSE Max({historyIndex - 1, 0})
    /\ UNCHANGED <<gameActive, currentGame, gameState, gameLoopRef, commandHistory,
                   targetNumber, attempts, isGameActive, viewMode, runnerVars>>

\* handleKeyDown, ArrowUp outside the shooter: one entry back in the history
KeyArrowUp ==
    /\ ~inShooter
    /\ ~gameActive
    /\ Len(commandHistory) > 0
    /\ historyIndex' = IF historyIndex = -1
                       THEN Len(commandHistory) - 1
                       ELSE Max({historyIndex - 1, 0})
    /\ UNCHANGED <<gameActive, currentGame, gameState, gameLoopRef, commandHistory,
                   targetNumber, attempts, isGameActive, viewMode, runnerVars>>

\* handleKeyDown, ArrowDown: one entry forward, or off the end of the history
KeyArrowDown ==
    /\ ~gameActive
    /\ historyIndex # -1
    /\ historyIndex' = IF historyIndex < Len(commandHistory) - 1
                       THEN historyIndex + 1
                       ELSE -1
    /\ UNCHANGED <<gameActive, currentGame, gameState, gameLoopRef, commandHistory,
                   targetNumber, attempts, isGameActive, viewMode, runnerVars>>

\* ---------------------------------------------------------------------------
\* App: the view mode, the Escape key, re-renders and the layout switch
\* ---------------------------------------------------------------------------

nextView(mode) ==
    IF mode = "terminal" THEN "projects"
    ELSE IF mode = "projects" THEN "visualizations"
    ELSE "terminal"

\* the view button of the navigation bar
cycleViewMode ==
    /\ viewMode' = nextView(viewMode)
    /\ UNCHANGED <<termVars, isGameActive, runnerVars>>

\* Escape with no runner on the page: the Terminal's handler of the input
\* runs first (it ends a running shooter), then the App's listener on window,
\* which finds isGameActive false and moves to the next view
KeyEscape ==
    /\ ~isGameActive
    /\ IF inShooter
       THEN gameActive' = FALSE /\ currentGame' = "" /\ gameLoopRef' = "null"
       ELSE UNCHANGED <<gameActive, currentGame, gameLoopRef>>
    /\ viewMode' = nextView(viewMode)
    /\ UNCHANGED <<gameState, shellVars, isGameActive, runnerVars>>

\* App renders again (a hint timer, the repository data): onQuit is a new
\* arrow function, a changed dependency of the RunnerGame effect, which is
\* cleaned up and run again
AppRender ==
    /\ mounted
    /\ UNCHANGED <<termVars, viewMode, isGameActive, gameOver, score, scoreRef, gameStateRef>>
    /\ IF gameOver /\ score > highScore
       THEN highScore' = score /\ runnerHighScore' = score
       ELSE UNCHANGED <<highScore, runnerHighScore>>
    /\ runEffect

\* the window is resized across the 768 px breakpoint: App returns its other
\* layout, where the Terminal sits at another place of the tree; the old
\* Terminal unmounts (its cleanup clears the interval) and a new one mounts
Resize ==
    /\ ~mounted
    /\ gameActive' = FALSE
    /\ currentGame' = ""
    /\ gameState' = << >>
    /\ gameLoopRef' = "null"
    /\ commandHistory' = << >>
    /\ historyIndex' = -1
    /\ targetNumber' = 0
    /\ attempts' = 0
    /\ UNCHANGED <<isGameActive, viewMode, runnerVars>>

Init ==
    /\ gameActive = FALSE
    /\ currentGame = ""
    /\ gameState = << >>
    /\ gameLoopRef = "null"
    /\ commandHistory = << >>
    /\ historyIndex = -1
    /\ targetNumber = 0
    /\ attempts = 0
    /\ isGameActive = FALSE
    /\ viewMode = "terminal"
    /\ gameOver = FALSE
    /\ score = 0
    /\ scoreRef = 0
    /\ highScore = 0
    /\ runnerHighScore = 0
    /\ gameStateRef = [isRunning |-> TRUE, obstacles |-> << >>, frameCount |-> 0, gameSpeed |-> 0]
    /\ effectGameOver = FALSE
    /\ player = [x |-> 0, y |-> 0, width |-> 0, height |-> 0]
    /\ isJumping = FALSE
    /\ isDucking = FALSE
    /\ jumpVelocity = 0

\* A behaviour of Spec plays one of the two games per page load: the shooter is
\* started on a page that has not opened the runner, and the runner on a page
\* that has not started the shooter.
ShooterScope == ~isGameActive /\ runnerHighScore = 0
RunnerScope  == gameState = << >>
\* The line games, the history and the views are explored on a page that has
\* started neither; a game is started as the first command of the page, the
\* shooter also as the second one, typed while the runner waits at its first frame.
\* A run of the runner is started again while the best score is at most MaxBest.
ShellScope   == ShooterScope /\ RunnerScope
FirstCommand == commandHistory = << >> /\ viewMode = "terminal"
RunnerWaits  ==
    /\ isGameActive
    /\ gameStateRef.frameCount = 0
    /\ ~isJumping /\ ~isDucking
    /\ commandHistory = <<"runner">>

Next ==
    \/ ShooterScope /\ FirstCommand /\ StartShooter
    \/ RunnerWaits /\ StartShooter
    \/ ShooterScope /\ Tick
    \/ ShooterScope /\ KeyLeft
    \/ ShooterScope /\ KeyRight
    \/ ShooterScope /\ KeyFire
    \/ ShooterScope /\ KeyQuit
    \/ ShooterScope /\ EnterQuit
    \/ ShooterScope /\ KeyRestart
    \/ RunnerScope /\ FirstCommand /\ StartRunner
    \/ RunnerScope /\ Frame
    \/ RunnerScope /\ KeyJump
    \/ RunnerScope /\ KeyDuck
    \/ RunnerScope /\ KeyDuckUp
    \/ RunnerScope /\ Render
    \/ RunnerScope /\ highScore <= MaxBest /\ resetGame
    \/ RunnerScope /\ RunnerQuit
    \/ RunnerScope /\ AppRender
    \/ ShellScope /\ OtherCommand
    \/ ShellScope /\ FirstCommand /\ StartGuesser
    \/ ShellScope /\ EnterGuess
    \/ ShellScope /\ FirstCommand /\ StartAdventure
    \/ ShellScope /\ EnterAdventure
    \/ ShellScope /\ KeyArrowUp
    \/ ShellScope /\ KeyArrowDown
    \/ ShellScope /\ cycleViewMode
    \/ ShellScope /\ KeyEscape
    \/ ShooterScope /\ inShooter /\ KeyEscape
    \/ ShooterScope /\ Resize

Spec == Init /\ [][Next]_vars

\* The frames keep running: gameLoop ends with requestAnimationFrame(gameLoop).
FairSpec == Spec /\ WF_vars(RunnerScope /\ Frame)

\* ======================================================================
\* Properties
\* ======================================================================
Actions == {"", "a", "d", " "}

live == gameState # << >> /\ ~gameState[1].gameOver
dead == gameState # << >> /\ gameState[1].gameOver

Count(s, cell) == Cardinality({i \in 1..Len(s) : s[i].x = cell.x /\ s[i].y = cell.y})

Grid == [x : 0..(GAME_WIDTH - 1), y : 0..(GAME_HEIGHT - 1)]

\* the cells of the grid that hold an entity of s (in every other cell Count is 0)
Cells(s) == {[x |-> s[i].x, y |-> s[i].y] : i \in 1..Len(s)} \cap Grid

\* C1: once the shooter is over, updateSpaceShooter returns its input for every
\* action, and no tick or key event changes the game state until a restart
\* (the R key, or the game being started again, or the Terminal being mounted
\* anew by a change of layout).
C1_GameOverFrozen ==
    [][dead =>
         /\ \A action \in Actions, spawnX \in Spawns :
               \A drops \in Drops(gameState[1], action, spawnX) :
                  updateSpaceShooter(gameState[1], action, spawnX, drops) = gameState[1]
         /\ gameState' = gameState \/ KeyRestart \/ StartShooter \/ Resize]_vars

C1_Witness ==
    /\ dead
    /\ gameActive
    /\ gameLoopRef = "armed"
    /\ gameState[1].bullets # << >>
    /\ gameState[1].score < MaxShooterScore

\* C2: from the frame whose collision sets game-over onward nothing of the runner
\* moves: that frame neither counts itself, spawns nor speeds up after the
\* collision, and until resetGame (or the component is closed) obstacles, player,
\* velocity, frame counter, speed and score keep their values.
C2_FrozenFromCollision ==
    [][(mounted /\ ~resetGame /\ ~RunnerQuit) =>
         /\ gameOver =>
               UNCHANGED <<gameStateRef, player, jumpVelocity, scoreRef>>
         /\ (~gameOver /\ gameOver') =>
               /\ gameStateRef'.frameCount = gameStateRef.frameCount
               /\ gameStateRef'.gameSpeed = gameStateRef.gameSpeed
               /\ Len(gameStateRef'.obstacles) <= Len(gameStateRef.obstacles)]_vars

Overlap(a, b) ==
    ~ \/ a.x + a.width <= b.x
      \/ b.x + b.width <= a.x
      \/ a.y + a.height <= b.y
      \/ b.y + b.height <= a.y

Caught(o, p, jumping, ducking) ==
    /\ Overlap(p, o)
    /\ (o.type = "low" => ~jumping)
    /\ (o.type = "high" => ~ducking)

liveFrameStep ==
    /\ mounted
    /\ ~effectGameOver
    /\ gameStateRef'.frameCount = gameStateRef.frameCount + 1

C4_MeteoriteOnPlayerIsGameOver ==
    gameState # << >> =>
       ((\E i \in 1..Len(gameState[1].meteorites) :
            /\ gameState[1].meteorites[i].x = gameState[1].playerPos
            /\ gameState[1].meteorites[i].y = GAME_HEIGHT - 1)
        => gameState[1].gameOver)

\* C5: on a live shooter a movement action, also one against the grid boundary,
\* changes at most playerPos, by one column: bullets, meteorites, loot, score and
\* gameOver are those of the input and no meteorite is spawned.
C5_MoveChangesOnlyPlayer ==
    live =>
       \A action \in {"a", "d"}, spawnX \in Spawns :
          \A drops \in Drops(gameState[1], action, spawnX) :
          LET old == gameState[1]
              new == updateSpaceShooter(old, action, spawnX, drops)
          IN  /\ new.bullets = old.bullets
              /\ new.meteorites = old.meteorites
              /\ new.loot = old.loot
              /\ new.score = old.score
              /\ new.gameOver = old.gameOver
              /\ new.playerPos - old.playerPos \in {-1, 0, 1}

\* C6: after a non-movement update no bullet shares a cell with a meteorite; in
\* every cell the update removed as many bullets as meteorites, namely one pair
\* wherever both were present after the move step, and the score rose by the
\* kill value once per pair (plus the pickup value per loot item collected).
C6_PairsRemovedOnce ==
    (live /\ gameLoopRef = "armed") =>
       \A action \in Actions, spawnX \in Spawns :
          \A drops \in Drops(gameState[1], action, spawnX) :
          ~isMove(gameState[1], action) =>
             LET old   == gameState[1]
                 moved == afterMoves(old, action, spawnX)
                 new   == updateSpaceShooter(old, action, spawnX, drops)
                 goneB(c) == Count(moved.bullets, c) - Count(new.bullets, c)
                 goneM(c) == Count(moved.meteorites, c) - Count(new.meteorites, c)
                 pairs == Len(moved.bullets) - Len(new.bullets)
                 drop  == afterCollisions(old, action, spawnX, drops).loot
                 taken == Cardinality({i \in 1..Len(drop) :
                                          /\ drop[i].y + 1 = GAME_HEIGHT - 1
                                          /\ drop[i].x = old.playerPos})
             IN  /\ \A c \in Cells(moved.bullets) \cup Cells(moved.meteorites)
                               \cup Cells(new.bullets) \cup Cells(new.meteorites) :
                       /\ Count(new.bullets, c) = 0 \/ Count(new.meteorites, c) = 0
                       /\ goneB(c) = goneM(c)
                       /\ goneB(c) = IF Count(moved.bullets, c) > 0 /\ Count(moved.meteorites, c) > 0
                                     THEN 1 ELSE 0
                 /\ new.score = old.score + KILL_POINTS * pairs + LOOT_POINTS * taken

\* a kill has happened
C6_Witness ==
    /\ live
    /\ gameLoopRef = "armed"
    /\ gameState[1].score >= KILL_POINTS
    /\ gameState[1].meteorites # << >>

\* C7: the runner's player is never jumping and ducking at once.
C7_NeverJumpingAndDucking == ~(isJumping /\ isDucking)

\* C8: while a jump is in flight no key event (jump, duck press, duck release)
\* changes the player's height above the ground, its velocity or the jump itself.
C8_KeysLeaveJumpAlone ==
    [][(mounted /\ isJumping /\ (KeyJump \/ KeyDuck \/ KeyDuckUp)) =>
         /\ player'.y = player.y
         /\ jumpVelocity' = jumpVelocity
         /\ isJumping']_vars

\* the obstacles of ref that were not yet past the player's left edge one move ago
passedNow(ref) ==
    Cardinality({i \in 1..Len(ref.obstacles) :
                    /\ ref.obstacles[i].passed
                    /\ ref.obstacles[i].x + ref.obstacles[i].speed + ref.obstacles[i].width
                          >= player.x})

C10_ScoreNeverDecreases ==
    [][/\ (gameState # << >> /\ gameState' # << >> /\ ~KeyRestart /\ ~StartShooter) =>
             gameState'[1].score >= gameState[1].score
       /\ (mounted /\ ~resetGame /\ ~RunnerQuit) =>
             (scoreRef' >= scoreRef /\ score' >= score)]_vars

\* loot has been picked up in the shooter
C10_Witness ==
    /\ gameState # << >>
    /\ gameState[1].score >= KILL_POINTS + LOOT_POINTS

\* C11: the restart key (R) acts only on a shooter that is over, and then the
\* game state is exactly the initial one: no bullets, meteorites or loot, score
\* 0, the player in the center column, gameOver false.  Pressed on a live game
\* it changes nothing.  Either way the game stays active and its timer armed.
C11_RestartOnlyWhenOver ==
    [][KeyRestart =>
         /\ IF gameState[1].gameOver
            THEN gameState' = <<[playerPos  |-> GAME_WIDTH \div 2,
                                 meteorites |-> << >>,
                                 bullets    |-> << >>,
                                 loot       |-> << >>,
                                 score      |-> 0,
                                 gameOver   |-> FALSE]>>
            ELSE gameState' = gameState
         /\ UNCHANGED <<gameActive, currentGame, gameLoopRef>>]_vars

\* a game that ended with points on the board, where R restarts
C11_Witness ==
    /\ dead
    /\ inShooter
    /\ gameState[1].score > 0
    /\ gameState[1].playerPos # GAME_WIDTH \div 2

\* C12: the Restart button sets the score to 0, empties the obstacle list, sets
\* the frame counter to 0 and the scroll speed to its initial value and leaves
\* the best score alone; the player is then standing on the ground with zero
\* vertical velocity, and so it is when the effect of the new run has started.
C12_ResetRestoresInitial ==
    [][/\ resetGame =>
             /\ score' = 0 /\ scoreRef' = 0
             /\ gameStateRef'.obstacles = << >>
             /\ gameStateRef'.frameCount = 0
             /\ gameStateRef'.gameSpeed = initialSpeed
             /\ highScore' = highScore /\ runnerHighScore' = runnerHighScore
             /\ player' = standingPlayer /\ jumpVelocity' = 0 /\ ~isJumping' /\ ~isDucking'
       /\ (Render /\ effectGameOver /\ ~gameOver) =>
             /\ player' = standingPlayer /\ jumpVelocity' = 0 /\ ~isJumping' /\ ~isDucking'
             /\ score' = 0 /\ gameStateRef' = initialGameState
             /\ highScore' = highScore /\ runnerHighScore' = runnerHighScore]_vars

\* Restart has been pressed after a run that set a best score; the effect of
\* the new run has not started yet
C12_Witness ==
    /\ mounted
    /\ ~gameOver /\ effectGameOver
    /\ highScore > 0
    /\ gameStateRef = initialGameState

\* C13: the stored best score never decreases, and when a run has ended, by
\* game-over or by the game being quit, the stored best is at least the run's
\* final score.
C13_BestScoreKept ==
    [][/\ runnerHighScore' >= runnerHighScore
       /\ RunnerQuit => runnerHighScore' >= scoreRef
       /\ resetGame => runnerHighScore' >= scoreRef]_vars

\* frames since the obstacle was spawned: it has moved by its own speed each frame
age(o) == (canvasWidth * Scale - o.x) \div o.speed

\* C14: once the run has reached score 10 the obstacles are spawned at a shorter
\* interval than the initial one: an obstacle spawned then follows the obstacle
\* before it by fewer frames than the initial spawn interval.
C14_SpawnIntervalShrinks ==
    (mounted /\ scoreRef >= 10) =>
       \A i \in 2..Len(gameStateRef.obstacles) :
          gameStateRef.obstacles[i].x = canvasWidth * Scale =>
             age(gameStateRef.obstacles[i - 1]) < spawnEvery

\* C15: the scroll speed is the initial speed plus one step per speedEvery
\* elapsed frames, up to a cap: within the run lengths covered it stays below
\* the speed an unlimited ramp has reached by the last frame.
C15_SpeedCapped ==
    mounted =>
       /\ gameStateRef.gameSpeed <= initialSpeed + speedStep * (gameStateRef.frameCount \div speedEvery)
       /\ gameStateRef.gameSpeed < initialSpeed + speedStep * (MaxFrames \div speedEvery)

\* C16: a fire action on a live shooter adds exactly one bullet, and in the state
\* the update returns that bullet is in the player's column, one row above the
\* player's row.
C16_FireAddsBulletAbovePlayer ==
    live =>
       \A spawnX \in Spawns :
          \A drops \in Drops(gameState[1], " ", spawnX) :
             LET old == gameState[1]
                 new == updateSpaceShooter(old, " ", spawnX, drops)
             IN  Count(new.bullets, [x |-> old.playerPos, y |-> GAME_HEIGHT - 2]) = 1

C18_LootAtMeteoriteCell ==
    live =>
       \A action \in Actions, spawnX \in Spawns :
          ~isMove(gameState[1], action) =>
             LET old   == gameState[1]
                 moved == afterMoves(old, action, spawnX)
                 hit   == {i \in 1..Len(moved.bullets) :
                              hitIndex(moved.bullets[i], moved.meteorites) # 0}
             IN  \A i \in hit :
                    hit = {i} =>
                       LET new  == updateSpaceShooter(old, action, spawnX, {i})
                           cell == [x |-> moved.bullets[i].x, y |-> moved.bullets[i].y]
                       IN  Count(new.loot, cell) = Count(moveAll(old.loot, 1), cell) + 1

\* C19: in every shooter state the player's column is on the grid and so is
\* every bullet, meteorite and loot item: what left the grid during an update
\* is not in the state the update returned.
C19_EntitiesOnGrid ==
    gameState # << >> =>
       LET state == gameState[1]
           onGrid(s) == \A i \in 1..Len(s) :
                           /\ 0 <= s[i].x /\ s[i].x < GAME_WIDTH
                           /\ 0 <= s[i].y /\ s[i].y < GAME_HEIGHT
       IN  /\ 0 <= state.playerPos /\ state.playerPos < GAME_WIDTH
           /\ onGrid(state.bullets)
           /\ onGrid(state.meteorites)
           /\ onGrid(state.loot)

\* a meteorite is in the bottom row and a bullet in the top row of a live game:
\* the next tick takes both off the grid
C19_Witness ==
    /\ live
    /\ gameLoopRef = "armed"
    /\ \E i \in 1..Len(gameState[1].meteorites) : gameState[1].meteorites[i].y = GAME_HEIGHT - 1
    /\ \E i \in 1..Len(gameState[1].bullets) : gameState[1].bullets[i].y = 0

\* C20: quitting the shooter clears its interval, and while no shooter is active
\* nothing changes its game state until it is started again (a change of layout
\* discards it with the Terminal); quitting the runner
\* unmounts it, and while it is not mounted nothing changes its state until it
\* is started again.
C20_NoTickAfterQuit ==
    [][/\ (KeyQuit \/ EnterQuit \/ (inShooter /\ KeyEscape)) =>
             (gameLoopRef' = "null" /\ ~gameActive')
       /\ (~gameActive /\ ~StartShooter /\ ~Resize) => gameState' = gameState
       /\ RunnerQuit => ~mounted'
       /\ (~mounted /\ ~StartRunner) => UNCHANGED runnerVars]_vars

\* a live shooter has been quit
C20_Witness ==
    /\ live
    /\ ~gameActive
    /\ gameLoopRef = "null"
    /\ gameState[1].meteorites # << >>

\* C21: the runner and the shooter are never active together: the runner
\* overlay is never mounted while the Terminal is in the shooter mode, in
\* whatever order the commands and the keys arrive.
C21_OneGameAtATime ==
    ~(isGameActive /\ gameActive /\ currentGame = "spaceshooter")

\* C22: updateSpaceShooter is pure: whatever the action and the random
\* outcomes, the state object passed in is after the call what it was before
\* (bullets, meteorites, loot, score, playerPos), also on a tick that fires or
\* drops loot.
C22_UpdateIsPure ==
    gameState # << >> =>
       \A action \in Actions, spawnX \in Spawns :
          \A drops \in Drops(gameState[1], action, spawnX) :
             inputAfter(gameState[1], action, spawnX, drops) = gameState[1]

\* C23: in an update of the shooter every bullet that remains comes from the
\* cell below it in its column (or is the one fired, two rows above the player)
\* and every meteorite from the cell above it in its column (or is the one
\* spawned in the top row); a player move leaves both where they are.  In a frame of the runner
\* every obstacle that remains has moved left by its own stored speed, with
\* its height above the ground, size, type and speed unchanged, or is the one
\* just spawned at the right edge.
C23_EntitiesMoveOneWay ==
    [][/\ (live /\ gameState' # << >> /\ gameState' # gameState /\ ~StartShooter) =>
            LET old == gameState[1]
                new == gameState'[1]
            IN  \/ /\ new.playerPos # old.playerPos
                   /\ new.bullets = old.bullets
                   /\ new.meteorites = old.meteorites
                \/ /\ new.playerPos = old.playerPos
                   /\ \A i \in 1..Len(new.bullets) :
                        LET b == new.bullets[i]
                        IN  Count(new.bullets, b) <=
                               Count(old.bullets, [x |-> b.x, y |-> b.y + 1])
                               + (IF b.x = old.playerPos /\ b.y = GAME_HEIGHT - 3
                                  THEN 1 ELSE 0)
                   /\ \A j \in 1..Len(new.meteorites) :
                        LET m == new.meteorites[j]
                        IN  Count(new.meteorites, m) <=
                               Count(old.meteorites, [x |-> m.x, y |-> m.y - 1])
                               + (IF m.y = 0 THEN 1 ELSE 0)
       /\ liveFrameStep =>
            \A j \in 1..Len(gameStateRef'.obstacles) :
               LET n == gameStateRef'.obstacles[j]
               IN  \/ \E i \in 1..Len(gameStateRef.obstacles) :
                         LET o == gameStateRef.obstacles[i]
                         IN  /\ o.speed > 0
                             /\ n.x = o.x - o.speed
                             /\ n.y = o.y /\ n.width = o.width /\ n.height = o.height
                             /\ n.type = o.type /\ n.speed = o.speed
                   \/ /\ n.x = canvasWidth * Scale
                      /\ gameStateRef'.frameCount % spawnEvery = 0
                      /\ j = Len(gameStateRef'.obstacles)]_vars

\* a bullet has climbed to the top row while a meteorite has fallen two rows
C23_Witness ==
    /\ live
    /\ gameLoopRef = "armed"
    /\ \E i \in 1..Len(gameState[1].bullets) : gameState[1].bullets[i].y = 0
    /\ \E i \in 1..Len(gameState[1].meteorites) : gameState[1].meteorites[i].y = 2

\* C24: every jump of the runner ends: while the frames keep running, a player
\* who is in the air is later on the ground again with the jump flag cleared,
\* unless the run is over or the game is closed first.  A jump needs at most
\* 2 * |jumpStrength| / gravity + 2 frames; the jumps considered are those the
\* frames explored leave room for.
C24_JumpEnds ==
    (/\ mounted
     /\ isJumping
     /\ gameStateRef.frameCount + (2 * (0 - jumpStrength)) \div gravity + 2 <= MaxFrames)
       ~> (~isJumping \/ gameOver \/ ~mounted)

\* the player is on the way down, above the ground
C24_Witness ==
    /\ mounted
    /\ ~gameOver
    /\ isJumping
    /\ jumpVelocity > 0
    /\ player.y < ground(player.height)
    /\ gameStateRef.frameCount + (2 * (0 - jumpStrength)) \div gravity + 2 <= MaxFrames

\* C25: a frame of a live run keeps every obstacle whose right edge, after the
\* move, is still on the canvas (x + width >= 0) and removes the others: an
\* obstacle leaves the list exactly when x + width < 0.
C25_KeptWhileOnScreen ==
    [][liveFrameStep =>
         \A i \in 1..Len(gameStateRef.obstacles) :
            LET m == shift(gameStateRef.obstacles[i])
            IN  (m.x + m.width >= 0) <=>
                   \E j \in 1..Len(gameStateRef'.obstacles) :
                      [gameStateRef'.obstacles[j] EXCEPT !.passed = m.passed] = m]_vars

\* C26: a meteorite never passes through a bullet: when a bullet and a
\* meteorite are alone in their column, the meteorite in the cell right above
\* the bullet, the tick does not leave them both in the column with their
\* rows exchanged.
C26_NoPassingThrough ==
    [][(live /\ gameState' # << >> /\ Tick) =>
         LET old == gameState[1]
             new == gameState'[1]
         IN  \A i \in 1..Len(old.bullets), j \in 1..Len(old.meteorites) :
                LET b == old.bullets[i]
                    m == old.meteorites[j]
                IN  (/\ b.x = m.x
                     /\ m.y = b.y - 1
                     /\ \A k \in 1..Len(old.bullets) : old.bullets[k].x = b.x => k = i
                     /\ \A k \in 1..Len(old.meteorites) : old.meteorites[k].x = m.x => k = j)
                    => ~(/\ Count(new.bullets, [x |-> b.x, y |-> m.y]) > 0
                         /\ Count(new.meteorites, [x |-> m.x, y |-> b.y]) > 0)]_vars

\* C27: while the Terminal is in the shooter mode and the game is not over, the
\* 200 ms interval is armed, and no event but a quit (q, Escape, the line
\* 'quit') takes a live shooter out of that: not a resize across the mobile
\* breakpoint, not a render, not a restart.
C27_OnlyQuitStopsTicks ==
    [][/\ (inShooter /\ live) => gameLoopRef = "armed"
       /\ (inShooter /\ live /\ ~KeyQuit /\ ~EnterQuit /\ ~KeyEscape) =>
             (inShooter' /\ gameLoopRef' = "armed")]_vars

\* C28: an Escape that quits a game (the shooter in the Terminal, or the
\* runner) leaves the view mode of the App as it is.
C28_EscapeKeepsView ==
    [][((inShooter /\ KeyEscape) \/ RunnerQuit) => viewMode' = viewMode]_vars

\* C29: a render of the App while the runner is mounted leaves the player's
\* position and size, the jump and duck flags and the jump velocity as they are.
C29_AppRenderKeepsPlayer ==
    [][AppRender => UNCHANGED <<player, isJumping, isDucking, jumpVelocity>>]_vars

\* C30: while a line game or the shooter is active in the Terminal, no step
\* appends to the command history, moves the history cursor, or does what a
\* dispatched command does (start the runner, start another game, draw a new
\* target): Enter goes to the active game only, and ArrowUp and ArrowDown do
\* not browse the history.  (A change of layout replaces the Terminal.)
C30_GameModeOwnsTheLine ==
    [][(gameActive /\ ~Resize) =>
          /\ commandHistory' = commandHistory
          /\ historyIndex' = historyIndex
          /\ isGameActive' = isGameActive
          /\ targetNumber' = targetNumber
          /\ currentGame' \in {currentGame, ""}
          /\ gameActive' => currentGame' = currentGame
          /\ (gameState' # gameState) => inShooter]_vars

\* a guess has been entered in the guesser and the game goes on
C30_Witness ==
    /\ gameActive
    /\ currentGame = "guesser"
    /\ attempts > 0
    /\ commandHistory = <<"guesser">>
    /\ historyIndex = -1

=============================================================================
